---------------------------- MODULE Spec2Model ----------------------------
(***************************************************************************)
(* A model of the source-structure extractor of src/ex-1/p-3.py: the       *)
(* language profile table LANGUAGE_QUERIES, the constructor of Treesitter, *)
(* and Treesitter.parse with its helpers _extract_methods_in_class,        *)
(* _extract_doc_comment and _is_descendant_of.                             *)
(*                                                                         *)
(* The parsing and query engine (tree_sitter, tree_sitter_language_pack)   *)
(* is an external collaborator.  It is modelled by what the extractor      *)
(* reads from it: a syntax tree is a source byte string plus, per node in  *)
(* document (pre-)order, its kind, its parent and its byte range; a query  *)
(* yields its captures in document order.                                  *)
(*                                                                         *)
(* Python values are represented as follows.                               *)
(*   bytes      a sequence of integers 0..255                              *)
(*   str        a sequence of one-character strings                        *)
(*   None       NoneVal (the empty tuple); a present optional str x is     *)
(*              Some(x) (the one-element tuple)                            *)
(*   exception  a record [raised |-> TRUE, error |-> <class name>]         *)
(***************************************************************************)
EXTENDS Integers, Sequences, FiniteSets, TLC

----------------------------------------------------------------------------
(* Bounds of the model.                                                    *)

\* Largest number of nodes (below the root) of a generated nested file.
MaxNodes == 3

\* Largest number of siblings that precede the declaration of a generated
\* sibling-run file.
MaxSibs == 3

\* Largest number of nodes of a generated file that carries a damaged token
\* (an undecodable comment, a declaration whose name token is missing).
MaxFlawNodes == 2

\* Largest number of parse calls made on one extractor instance.
MaxCalls == 4

----------------------------------------------------------------------------
(* The state: a caller that builds an extractor and calls parse on it.     *)

VARIABLES
  grammar_rejects, \* the patterns the installed grammars reject (the environment)
  ts_parser,       \* the Treesitter object, as far as its constructor built it
  ctor,            \* how the constructor ended: "none" (not called),
                   \* "returned", or the exception it raised
  calls,           \* the number of parse calls made
  first_call,      \* the first parse call: its file and how it ended
  last_call,       \* the latest parse call: its file and how it ended
  between,         \* how the calls on other files since the first call ended
  frame            \* the frame of a parse call that is followed statement by
                   \* statement: where it is and the values of its locals

vars == <<grammar_rejects, ts_parser, ctor, calls, first_call, last_call, between, frame>>

----------------------------------------------------------------------------
(* bytes and str                                                           *)

AsciiTable ==
  << "<00>", "<01>", "<02>", "<03>", "<04>", "<05>", "<06>", "<07>", "<08>", "\t", "\n", "<0b>", "\f", "\r", "<0e>", "<0f>",
     "<10>", "<11>", "<12>", "<13>", "<14>", "<15>", "<16>", "<17>", "<18>", "<19>", "<1a>", "<1b>", "<1c>", "<1d>", "<1e>", "<1f>",
     " ", "!", "\"", "#", "$", "%", "&", "'", "(", ")", "*", "+", ",", "-", ".", "/",
     "0", "1", "2", "3", "4", "5", "6", "7", "8", "9", ":", ";", "<", "=", ">", "?",
     "@", "A", "B", "C", "D", "E", "F", "G", "H", "I", "J", "K", "L", "M", "N", "O",
     "P", "Q", "R", "S", "T", "U", "V", "W", "X", "Y", "Z", "[", "\\", "]", "^", "_",
     "<60>", "a", "b", "c", "d", "e", "f", "g", "h", "i", "j", "k", "l", "m", "n", "o",
     "p", "q", "r", "s", "t", "u", "v", "w", "x", "y", "z", "{", "|", "}", "~", "<7f>" >>

\* The character of an ASCII byte.
Chr(b) == AsciiTable[b + 1]

\* bytes.decode(): UTF-8.  The files of the model hold ASCII bytes and the
\* byte 255, which occurs in no well-formed UTF-8 sequence.
DecodeFails(bs) == \E i \in 1..Len(bs) : bs[i] > 127

Decode(bs) == [i \in 1..Len(bs) |-> Chr(bs[i])]

\* The characters str.strip() removes (the ASCII ones).
Whitespace == {" ", "\t", "\n", "\r", "\f", "<0b>", "<1c>", "<1d>", "<1e>", "<1f>"}

RECURSIVE LStrip(_)
LStrip(s) == IF s # <<>> /\ Head(s) \in Whitespace THEN LStrip(Tail(s)) ELSE s

RECURSIVE RStrip(_)
RStrip(s) ==
  IF s # <<>> /\ s[Len(s)] \in Whitespace THEN RStrip(SubSeq(s, 1, Len(s) - 1)) ELSE s

\* str.strip()
Strip(s) == RStrip(LStrip(s))

NoneVal == <<>>

Some(x) == <<x>>

----------------------------------------------------------------------------
(* Syntax trees: what the Tree and Node of tree_sitter give the extractor.      *)
(* A tree is [source, kind, parent, start, end]; node i is the i-th node   *)
(* in document order, node 1 is the root and parent[1] = 0 (None).         *)

\* tree.root_node
RootNode == 1

Nodes(t) == 1..Len(t.kind)

\* node.text: the bytes of the node's range.
NodeText(t, n) == SubSeq(t.source, t.start[n] + 1, t.end[n])

\* node.type
NodeType(t, n) == t.kind[n]

\* node.parent (0: None)
NodeParent(t, n) == t.parent[n]

\* A prev_sibling that gives the node itself.
PrevSiblingSame(t, n) == n

\* node.prev_sibling (0: None): the nearest earlier child of the same parent.
PrevSibling(t, n) ==
  LET earlier == {m \in Nodes(t) : m < n /\ t.parent[m] = t.parent[n]}
  IN  IF t.parent[n] = 0 \/ earlier = {} THEN 0
      ELSE CHOOSE m \in earlier : \A k \in earlier : k <= m

RECURSIVE InSubtree(_, _, _)
\* n is scope or lies below it.
InSubtree(t, n, scope) ==
  IF n = scope THEN TRUE
  ELSE IF n = 0 \/ n < scope THEN FALSE
  ELSE InSubtree(t, t.parent[n], scope)

\* The elements of a set of integers, in increasing order.
RECURSIVE SortedSeq(_)
SortedSeq(S) ==
  IF S = {} THEN <<>>
  ELSE LET m == CHOOSE x \in S : \A y \in S : x <= y
       IN  <<m>> \o SortedSeq(S \ {m})

----------------------------------------------------------------------------
(* The language enumeration and the profile table.                         *)

\* LanguageEnum: the values of its members.
LanguageEnum == {"java", "python", "rust", "javascript", "unknown"}

\* A query is a set of pattern alternatives [root, capture, label]: a node
\* of kind `capture` is captured under `label` when `root` is "" or the
\* node's parent has kind `root`.  (class_declaration name: (identifier)
\* @class.name) is [root |-> "class_declaration", capture |-> "identifier"]:
\* in the grammars of the table the name is the only direct child of its
\* kind, so the field name adds nothing.
Pattern(root, capture, label) == [root |-> root, capture |-> capture, label |-> label]

LANGUAGE_QUERIES ==
  [java |->
     [class_query  |-> {Pattern("class_declaration", "identifier", "class.name")},
      method_query |-> {Pattern("method_declaration", "identifier", "method.name"),
                        Pattern("constructor_declaration", "identifier", "method.name")},
      doc_query    |-> {Pattern("", "block_comment", "comment")}],
   python |->
     [class_query  |-> {Pattern("class_definition", "identifier", "class.name")},
      method_query |-> {Pattern("function_definition", "identifier", "function.name")},
      doc_query    |-> {Pattern("expression_statement", "string", "comment")}],
   rust |->
     [class_query  |-> {Pattern("struct_item", "type_identifier", "class.name")},
      method_query |-> {Pattern("function_item", "identifier", "function.name")},
      doc_query    |-> {Pattern("", "line_comment", "comment"),
                        Pattern("", "block_comment", "comment")}],
   javascript |->
     [class_query  |-> {Pattern("class_declaration", "identifier", "class.name")},
      method_query |-> {Pattern("method_definition", "property_identifier", "method.name")},
      doc_query    |-> {Pattern("", "comment", "comment")}]]

\* The languages with a profile.
Registered == DOMAIN LANGUAGE_QUERIES

----------------------------------------------------------------------------
(* The query engine: QueryCursor(query).matches(scope).                    *)

\* Whether node n, inside the scope, is captured by alternative p.  The
\* whole pattern must lie inside the scope, its root node included.
Captured(t, p, n, scope) ==
  /\ t.kind[n] = p.capture
  /\ InSubtree(t, n, scope)
  /\ \/ p.root = ""
     \/ /\ t.parent[n] # 0
        /\ t.kind[t.parent[n]] = p.root
        /\ InSubtree(t, t.parent[n], scope)

\* The captures of one run with one capture kept per captured text: the
\* first in document order.
MatchesByText(t, query, scope) ==
  LET hit(n) == {p \in query : Captured(t, p, n, scope)}
      ns == SortedSeq({n \in Nodes(t) :
                         /\ hit(n) # {}
                         /\ \A m \in Nodes(t) :
                              (m < n /\ hit(m) # {}) => NodeText(t, m) # NodeText(t, n)})
  IN  [i \in 1..Len(ns) |->
         [node |-> ns[i], label |-> (CHOOSE p \in hit(ns[i]) : TRUE).label]]

\* The captured nodes of one run, as [node, label], in document order.
Matches(t, query, scope) ==
  LET hit(n) == {p \in query : Captured(t, p, n, scope)}
      ns == SortedSeq({n \in Nodes(t) : hit(n) # {}})
  IN  [i \in 1..Len(ns) |->
         [node |-> ns[i], label |-> (CHOOSE p \in hit(ns[i]) : TRUE).label]]

----------------------------------------------------------------------------
(* self.parser.parse(file_bytes): the trees the engine builds.             *)
(*                                                                         *)
(* A generated file is an outline: a sequence of items [role, parent] in   *)
(* document order, parent being the index of the enclosing item (0: top    *)
(* level).  The parser of a language turns it into the tree of that        *)
(* language's grammar.  Roles:                                             *)
(*   CLASS   a type declaration, with its name token                       *)
(*   METHOD  a function or method declaration, with its name token         *)
(*   NONAME  a function or method declaration whose name token is missing  *)
(*           (the engine's error recovery inserts an empty name node)      *)
(*   DOC     a comment of the kind the language's doc_query captures       *)
(*   BADDOC  the same, holding a byte that is not valid UTF-8              *)
(*   LINE    a line comment                                                *)
(*   STMT    an expression statement that wraps no string                  *)
(*   OTHER   any other statement or member, which may hold items           *)
(* Block and body nodes and punctuation are left out: the first item of a  *)
(* declaration follows the declaration's name node, on which the sibling   *)
(* walk stops as it does on an opening brace or at the start of a block.   *)

Grammar ==
  [java |->
     [root |-> "program",
      class |-> "class_declaration", className |-> "identifier", classKw |-> <<99, 108, 97, 115, 115>>,
      method |-> "method_declaration", methodName |-> "identifier", methodKw |-> <<118, 111, 105, 100>>,
      doc |-> "block_comment", docWrap |-> "", docOpen |-> <<47, 42>>, docClose |-> <<42, 47>>,
      line |-> "line_comment", lineOpen |-> <<47, 47>>,
      other |-> "block", otherKw |-> <<115, 116, 97, 116, 105, 99>>],
   python |->
     [root |-> "module",
      class |-> "class_definition", className |-> "identifier", classKw |-> <<99, 108, 97, 115, 115>>,
      method |-> "function_definition", methodName |-> "identifier", methodKw |-> <<100, 101, 102>>,
      doc |-> "string", docWrap |-> "expression_statement", docOpen |-> <<34>>, docClose |-> <<34>>,
      line |-> "comment", lineOpen |-> <<35>>,
      other |-> "if_statement", otherKw |-> <<105, 102>>],
   rust |->
     [root |-> "source_file",
      class |-> "struct_item", className |-> "type_identifier", classKw |-> <<115, 116, 114, 117, 99, 116>>,
      method |-> "function_item", methodName |-> "identifier", methodKw |-> <<102, 110>>,
      doc |-> "block_comment", docWrap |-> "", docOpen |-> <<47, 42>>, docClose |-> <<42, 47>>,
      line |-> "line_comment", lineOpen |-> <<47, 47>>,
      other |-> "mod_item", otherKw |-> <<109, 111, 100>>],
   javascript |->
     [root |-> "program",
      class |-> "class_declaration", className |-> "identifier", classKw |-> <<99, 108, 97, 115, 115>>,
      method |-> "method_definition", methodName |-> "property_identifier", methodKw |-> <<>>,
      doc |-> "comment", docWrap |-> "", docOpen |-> <<47, 42>>, docClose |-> <<42, 47>>,
      line |-> "comment", lineOpen |-> <<47, 47>>,
      other |-> "class_static_block", otherKw |-> <<115, 116, 97, 116, 105, 99>>]]

Space == <<32>>

Newline == <<10>>

\* The letter that tells the i-th item's token from the others.
Letter(i) == 96 + i

\* The name of the i-th item, when it is a declaration: names alternate, so
\* that both equal and different names occur in one file.
DeclName(i) == <<65 + (i % 2)>>

\* The nodes of the i-th item of an outline, each [kind, tok, sep, aux]: the
\* node's kind, its own token, the bytes between the previous token and its
\* own, and whether it is the child of the item's first node.
ItemNodes(g, item, i) ==
  LET node(kind, tok, sep, aux) == [kind |-> kind, tok |-> tok, sep |-> sep, aux |-> aux]
      named(kind, kw, nameKind, name) ==
        << node(kind, kw, Newline, FALSE),
           node(nameKind, name, IF kw = <<>> THEN <<>> ELSE Space, TRUE) >>
      comment(body) ==
        IF g.docWrap = ""
        THEN << node(g.doc, g.docOpen \o body \o g.docClose, Newline, FALSE) >>
        ELSE << node(g.docWrap, <<>>, Newline, FALSE),
                node(g.doc, g.docOpen \o body \o g.docClose, <<>>, TRUE) >>
  IN  CASE item.role = "CLASS"  -> named(g.class, g.classKw, g.className, DeclName(i))
        [] item.role = "METHOD" -> named(g.method, g.methodKw, g.methodName, DeclName(i))
        [] item.role = "NONAME" -> named(g.method, g.methodKw, g.methodName, <<>>)
        [] item.role = "DOC"    -> comment(<<Letter(i)>>)
        [] item.role = "BADDOC" -> comment(<<255>>)
        [] item.role = "LINE"   -> << node(g.line, g.lineOpen \o <<Letter(i)>>, Newline, FALSE) >>
        [] item.role = "STMT"   -> << node("expression_statement", <<Letter(i), 40, 41>>, Newline, FALSE) >>
        [] item.role = "OTHER"  -> << node(g.other, g.otherKw, Newline, FALSE) >>

RECURSIVE BuildTree(_, _, _, _, _)
\* The tree of an outline: items i.. are added to the tree acc; ids[j] is
\* the node of item j; tokEnd[n] is where node n's own token ends.
BuildTree(g, outline, i, acc, ids) ==
  IF i > Len(outline)
  THEN LET n == Len(acc.kind)
           last(m) == CHOOSE d \in 1..n :
                        /\ InSubtree(acc, d, m)
                        /\ \A e \in 1..n : InSubtree(acc, e, m) => e <= d
       IN  [source |-> acc.source, kind |-> acc.kind, parent |-> acc.parent,
            start |-> [m \in 1..n |-> IF m = RootNode
                                      THEN (IF n > 1 THEN acc.start[2] ELSE 0)
                                      ELSE acc.start[m]],
            end |-> [m \in 1..n |-> IF m = RootNode THEN Len(acc.source)
                                    ELSE acc.tokEnd[last(m)]]]
  ELSE LET item == outline[i]
           ns == ItemNodes(g, item, i)
           first == Len(acc.kind) + 1
           up == IF item.parent = 0 THEN RootNode ELSE ids[item.parent]
           sep1 == IF acc.source = <<>> THEN <<>> ELSE ns[1].sep
           at1 == Len(acc.source) + Len(sep1)
           src1 == acc.source \o sep1 \o ns[1].tok
           one == [source |-> src1,
                   kind |-> Append(acc.kind, ns[1].kind),
                   parent |-> Append(acc.parent, up),
                   start |-> Append(acc.start, at1),
                   tokEnd |-> Append(acc.tokEnd, Len(src1))]
           at2 == Len(src1) + Len(ns[2].sep)
           src2 == src1 \o ns[2].sep \o ns[2].tok
           two == [source |-> src2,
                   kind |-> Append(one.kind, ns[2].kind),
                   parent |-> Append(one.parent, first),
                   start |-> Append(one.start, at2),
                   tokEnd |-> Append(one.tokEnd, Len(src2))]
       IN  BuildTree(g, outline, i + 1, IF Len(ns) = 1 THEN one ELSE two, Append(ids, first))

\* parser.parse(file_bytes) of the parser of `language`, for a generated file.
OutlineTree(language, outline) ==
  LET g == Grammar[language]
  IN  BuildTree(g, outline, 1,
                [source |-> <<>>, kind |-> <<g.root>>, parent |-> <<0>>,
                 start |-> <<0>>, tokEnd |-> <<0>>],
                <<>>)

----------------------------------------------------------------------------
(* The files of the model.                                                 *)

\* The roles whose items may hold other items.
Containers == {"CLASS", "METHOD", "NONAME", "OTHER"}

RECURSIVE ItemInside(_, _, _)
\* Item j of the outline is item p or lies inside it.
ItemInside(outline, j, p) ==
  IF j = p THEN TRUE
  ELSE IF j = 0 THEN FALSE
  ELSE ItemInside(outline, outline[j].parent, p)

\* Where the next item of an outline may go: the top level, or inside a
\* container that is still open after the last item.
OpenParents(outline) ==
  {0} \cup {p \in 1..Len(outline) :
              /\ outline[p].role \in Containers
              /\ ItemInside(outline, Len(outline), p)}

RECURSIVE Outlines(_, _)
\* The outlines of k items with the given roles.
Outlines(k, roles) ==
  IF k = 0 THEN {<<>>}
  ELSE UNION {{Append(o, [role |-> r, parent |-> p]) : r \in roles, p \in OpenParents(o)} :
                o \in Outlines(k - 1, roles)}

\* Nested declarations with their documentation.
NestedFiles == UNION {Outlines(k, {"CLASS", "METHOD", "OTHER", "DOC"}) : k \in 0..MaxNodes}

\* What may precede a declaration among its siblings: a comment, a line
\* comment, an expression statement, another statement, another statement
\* that holds a comment.
SiblingShapes ==
  {<<"DOC">>, <<"LINE">>, <<"STMT">>, <<"OTHER">>, <<"OTHER", "DOC">>}

RECURSIVE SiblingRuns(_)
\* The outlines of k top-level siblings.
SiblingRuns(k) ==
  IF k = 0 THEN {<<>>}
  ELSE {o \o [j \in 1..Len(s) |-> [role |-> s[j], parent |-> IF j = 1 THEN 0 ELSE Len(o) + 1]] :
          o \in SiblingRuns(k - 1), s \in SiblingShapes}

\* A run of siblings and the declaration that follows it.
SiblingFiles ==
  {Append(o, [role |-> "METHOD", parent |-> 0]) :
     o \in UNION {SiblingRuns(k) : k \in 0..MaxSibs}}

\* Files with a damaged token.
FlawFiles ==
  {o \in UNION {Outlines(k, {"CLASS", "METHOD", "NONAME", "BADDOC"}) : k \in 1..MaxFlawNodes} :
     \E j \in 1..Len(o) : o[j].role \in {"NONAME", "BADDOC"}}

\* The sample of main() (src/ex-1/p-3.py, lines 244 to 259) and its tree in
\* the Python grammar, anonymous nodes included.
SampleSource ==
  << 10, 34, 34, 34, 65, 32, 109, 111, 100, 117, 108, 101, 45, 108, 101, 118, 101, 108, 32, 100,
     111, 99, 115, 116, 114, 105, 110, 103, 46, 34, 34, 34, 10, 99, 108, 97, 115, 115, 32, 77,
     121, 67, 108, 97, 115, 115, 58, 10, 32, 32, 32, 32, 34, 34, 34, 84, 104, 105, 115, 32,
     105, 115, 32, 116, 104, 101, 32, 99, 108, 97, 115, 115, 32, 100, 111, 99, 115, 116, 114, 105,
     110, 103, 46, 34, 34, 34, 10, 32, 32, 32, 32, 100, 101, 102, 32, 95, 95, 105, 110, 105,
     116, 95, 95, 40, 115, 101, 108, 102, 44, 32, 110, 97, 109, 101, 41, 58, 10, 32, 32, 32,
     32, 32, 32, 32, 32, 34, 34, 34, 84, 104, 101, 32, 99, 111, 110, 115, 116, 114, 117, 99,
     116, 111, 114, 32, 100, 111, 99, 115, 116, 114, 105, 110, 103, 46, 34, 34, 34, 10, 32, 32,
     32, 32, 32, 32, 32, 32, 115, 101, 108, 102, 46, 110, 97, 109, 101, 32, 61, 32, 110, 97,
     109, 101, 10, 10, 32, 32, 32, 32, 100, 101, 102, 32, 103, 114, 101, 101, 116, 40, 115, 101,
     108, 102, 41, 58, 10, 32, 32, 32, 32, 32, 32, 32, 32, 34, 34, 34, 65, 32, 109, 101,
     116, 104, 111, 100, 32, 100, 111, 99, 115, 116, 114, 105, 110, 103, 46, 34, 34, 34, 10, 32,
     32, 32, 32, 32, 32, 32, 32, 112, 114, 105, 110, 116, 40, 102, 34, 72, 101, 108, 108, 111,
     44, 32, 123, 115, 101, 108, 102, 46, 110, 97, 109, 101, 125, 34, 41, 10, 10, 100, 101, 102,
     32, 115, 116, 97, 110, 100, 97, 108, 111, 110, 101, 95, 102, 117, 110, 99, 116, 105, 111, 110,
     40, 120, 41, 58, 10, 32, 32, 32, 32, 34, 34, 34, 65, 32, 115, 116, 97, 110, 100, 97,
     108, 111, 110, 101, 32, 102, 117, 110, 99, 116, 105, 111, 110, 32, 100, 111, 99, 115, 116, 114,
     105, 110, 103, 46, 34, 34, 34, 10, 32, 32, 32, 32, 114, 101, 116, 117, 114, 110, 32, 120,
     32, 42, 32, 50, 10 >>
SampleKind ==
  << "module", "expression_statement", "string", "string_start", "string_content", "string_end",
     "class_definition", "class", "identifier", ":", "block", "expression_statement",
     "string", "string_start", "string_content", "string_end", "function_definition", "def",
     "identifier", "parameters", "(", "identifier", ",", "identifier",
     ")", ":", "block", "expression_statement", "string", "string_start",
     "string_content", "string_end", "expression_statement", "assignment", "attribute", "identifier",
     ".", "identifier", "=", "identifier", "function_definition", "def",
     "identifier", "parameters", "(", "identifier", ")", ":",
     "block", "expression_statement", "string", "string_start", "string_content", "string_end",
     "expression_statement", "call", "identifier", "argument_list", "(", "string",
     "string_start", "string_content", "interpolation", "{", "attribute", "identifier",
     ".", "identifier", "}", "string_end", ")", "function_definition",
     "def", "identifier", "parameters", "(", "identifier", ")",
     ":", "block", "expression_statement", "string", "string_start", "string_content",
     "string_end", "return_statement", "return", "binary_operator", "identifier", "*",
     "integer" >>
SampleParent ==
  << 0, 1, 2, 3, 3, 3, 1, 7, 7, 7, 7, 11, 12, 13, 13, 13, 11, 17, 17, 17,
     20, 20, 20, 20, 20, 17, 17, 27, 28, 29, 29, 29, 27, 33, 34, 35, 35, 35, 34, 34,
     11, 41, 41, 41, 44, 44, 44, 41, 41, 49, 50, 51, 51, 51, 49, 55, 56, 56, 58, 58,
     60, 60, 60, 63, 63, 65, 65, 65, 63, 60, 58, 1, 72, 72, 72, 75, 75, 75, 72, 72,
     80, 81, 82, 82, 82, 80, 86, 86, 88, 88, 88 >>
SampleStart ==
  << 1, 1, 1, 1, 4, 29, 33, 33, 39, 46, 52, 52, 52, 52, 55, 83, 91, 91, 95, 103,
     103, 104, 108, 110, 114, 115, 125, 125, 125, 125, 128, 154, 166, 166, 166, 166, 170, 171, 176, 178,
     188, 188, 192, 197, 197, 198, 202, 203, 213, 213, 213, 213, 216, 235, 247, 247, 247, 252, 252, 253,
     253, 255, 262, 262, 263, 263, 267, 268, 272, 273, 274, 277, 277, 281, 300, 300, 301, 302, 303, 309,
     309, 309, 309, 312, 344, 352, 352, 359, 359, 361, 363 >>
SampleEnd ==
  << 365, 32, 32, 4, 29, 32, 275, 38, 46, 47, 275, 86, 86, 55, 83, 86, 182, 94, 103, 115,
     104, 108, 109, 114, 115, 116, 182, 157, 157, 128, 154, 157, 182, 182, 175, 170, 171, 175, 177, 182,
     275, 191, 197, 203, 198, 202, 203, 204, 275, 238, 238, 216, 235, 238, 275, 275, 252, 275, 253, 274,
     255, 262, 273, 263, 272, 267, 268, 272, 273, 274, 275, 364, 280, 300, 303, 301, 302, 303, 304, 364,
     347, 347, 312, 344, 347, 364, 358, 364, 360, 362, 364 >>

SampleTree ==
  [source |-> SampleSource, kind |-> SampleKind, parent |-> SampleParent,
   start |-> SampleStart, end |-> SampleEnd]

\* The files: the generated outlines, and the sample.
Sample == <<[role |-> "SAMPLE", parent |-> 0]>>

Files == NestedFiles \cup SiblingFiles \cup FlawFiles \cup {Sample}

\* The source languages a file can be written in.
FileLanguages(file) == IF file = Sample THEN {"python"} ELSE Registered

\* self.parser.parse(file_bytes): the tree of a file.
ParseTree(language, file) ==
  IF file = Sample THEN SampleTree ELSE OutlineTree(language, file)

----------------------------------------------------------------------------
(* Results and exceptions.                                                 *)

Return(v) == [raised |-> FALSE, error |-> "", value |-> v]

Raise(e) == [raised |-> TRUE, error |-> e, value |-> NoneVal]

\* TreesitterMethodNode.__init__
TreesitterMethodNode(name, doc_comment, method_source_code, node, class_name) ==
  [name |-> name, doc_comment |-> doc_comment,
   method_source_code |-> method_source_code, node |-> node, class_name |-> class_name]

\* TreesitterClassNode.__init__: source_code = node.text.decode() may raise.
TreesitterClassNode(t, name, method_declarations, node) ==
  IF DecodeFails(NodeText(t, node)) THEN Raise("UnicodeDecodeError")
  ELSE Return([name |-> name, source_code |-> Decode(NodeText(t, node)),
               method_declarations |-> method_declarations, node |-> node])

----------------------------------------------------------------------------
(* Treesitter._is_descendant_of                                            *)

RECURSIVE AncestorWalk(_, _, _)
\* The loop, with `current` the node it is looking at (0: None).
AncestorWalk(t, current, ancestor) ==
  IF current = 0 THEN FALSE
  ELSE IF current = ancestor THEN TRUE
  ELSE AncestorWalk(t, NodeParent(t, current), ancestor)

IsDescendantOf(t, node, ancestor) == AncestorWalk(t, NodeParent(t, node), ancestor)

----------------------------------------------------------------------------
(* Treesitter._extract_doc_comment                                         *)

\* The kinds of sibling the walk passes without a capture.
TransparentTypes == {"comment", "block_comment", "line_comment", "expression_statement"}

RECURSIVE DocCaptures(_, _, _, _)
\* The loop over the captures of one sibling: each captured text goes before
\* what has been collected.
DocCaptures(t, ms, i, doc_comment) ==
  IF i > Len(ms) THEN Return(doc_comment)
  ELSE LET text == NodeText(t, ms[i].node)
       IN  IF ms[i].label # "comment" \/ text = <<>>
           THEN DocCaptures(t, ms, i + 1, doc_comment)
           ELSE IF DecodeFails(text) THEN Raise("UnicodeDecodeError")
           ELSE DocCaptures(t, ms, i + 1, Decode(text) \o <<"\n">> \o doc_comment)

\* Whether the walk goes on to the sibling before current_node.
WalkContinues(t, current_node, captures_found) ==
  captures_found \/ NodeType(t, current_node) \in TransparentTypes

RECURSIVE DocWalk(_, _, _, _)
\* The while loop, with current_node the sibling it is looking at (0: None).
DocWalk(self, t, current_node, doc_comment) ==
  IF current_node = 0 THEN Return(doc_comment)
  ELSE LET doc_matches == Matches(t, self.doc_query, current_node)
           got == DocCaptures(t, doc_matches, 1, doc_comment)
       IN  IF got.raised THEN got
           ELSE IF WalkContinues(t, current_node, Len(doc_matches) > 0)
                THEN DocWalk(self, t, PrevSibling(t, current_node), got.value)
                ELSE Return(got.value)

ExtractDocComment(self, t, node) ==
  LET walked == DocWalk(self, t, PrevSibling(t, node), <<>>)
  IN  IF walked.raised THEN walked ELSE Return(Strip(walked.value))

----------------------------------------------------------------------------
(* Treesitter._extract_methods_in_class                                    *)

MethodLabels == {"method.name", "function.name"}

\* node.parent.text.decode() if node.parent.text else ''
MemberText(t, node) == Decode(NodeText(t, NodeParent(t, node)))

RECURSIVE MemberLoop(_, _, _, _)
MemberLoop(t, ms, i, method_declarations) ==
  IF i > Len(ms) THEN Return(method_declarations)
  ELSE LET node == ms[i].node
       IN  IF ms[i].label \notin MethodLabels \/ NodeText(t, node) = <<>>
           THEN MemberLoop(t, ms, i + 1, method_declarations)
           ELSE IF DecodeFails(NodeText(t, NodeParent(t, node)))
           THEN Raise("UnicodeDecodeError")
           ELSE MemberLoop(t, ms, i + 1, Append(method_declarations, MemberText(t, node)))

\* The whole file as the scope of the member query.
MemberScopeRoot(t, class_node) == RootNode

\* The scope the member query of a type runs in.
MemberScope(t, class_node) == class_node

ExtractMethodsInClass(self, t, class_node) ==
  MemberLoop(t, Matches(t, self.method_query, MemberScope(t, class_node)), 1, <<>>)

----------------------------------------------------------------------------
(* Treesitter.parse                                                        *)

\* No lists: what is kept of a call that raised, or of no call.
NoLists ==
  [class_results |-> <<>>, method_results |-> <<>>,
   class_name_by_node |-> <<>>, class_nodes |-> <<>>]

\* The lists and the map of the latest call, as they were when it ended.
ParseLocalsKept == last_call.value

\* The lists and the map a call of parse starts with: new and empty.
ParseLocals ==
  [class_results |-> <<>>, method_results |-> <<>>,
   class_name_by_node |-> <<>>, class_nodes |-> <<>>]

\* class_name_by_node[key] = value
DictSet(d, key, value) ==
  [k \in DOMAIN d \cup {key} |-> IF k = key THEN value ELSE d[k]]

RECURSIVE ClassLoop(_, _, _, _, _)
\* The loop over the captures of the class query.
ClassLoop(self, t, ms, i, locals) ==
  IF i > Len(ms) THEN Return(locals)
  ELSE LET node == ms[i].node
           text == NodeText(t, node)
           class_node == NodeParent(t, node)
           members == ExtractMethodsInClass(self, t, class_node)
           made == TreesitterClassNode(t, Decode(text), members.value, class_node)
       IN  IF ms[i].label # "class.name" \/ text = <<>>
           THEN ClassLoop(self, t, ms, i + 1, locals)
           ELSE IF DecodeFails(text) THEN Raise("UnicodeDecodeError")
           ELSE IF members.raised THEN members
           ELSE IF made.raised THEN made
           ELSE ClassLoop(self, t, ms, i + 1,
                  [locals EXCEPT
                     !.class_name_by_node = DictSet(@, class_node, Decode(text)),
                     !.class_results = Append(@, made.value),
                     !.class_nodes = Append(@, class_node)])

\* The class nodes, in the order of class_nodes, that method_node lies in.
Enclosing(t, method_node, class_nodes) ==
  {j \in 1..Len(class_nodes) : IsDescendantOf(t, method_node, class_nodes[j])}

\* The last of the enclosing class nodes: a loop that does not break.
PickEnclosingLast(found) == CHOOSE j \in found : \A k \in found : k <= j

\* Which of the enclosing class nodes names the method: the loop breaks at
\* the first.
PickEnclosing(found) == CHOOSE j \in found : \A k \in found : j <= k

\* The source text of the enclosing class node in the place of its name.
ParentClassNameSource(t, method_node, locals) ==
  LET found == Enclosing(t, method_node, locals.class_nodes)
  IN  IF found = {} THEN NoneVal
      ELSE Some(Decode(NodeText(t, locals.class_nodes[PickEnclosing(found)])))

\* parent_class_name
ParentClassName(t, method_node, locals) ==
  LET found == Enclosing(t, method_node, locals.class_nodes)
  IN  IF found = {} THEN NoneVal
      ELSE Some(locals.class_name_by_node[locals.class_nodes[PickEnclosing(found)]])

RECURSIVE MethodLoop(_, _, _, _, _)
\* The loop over the captures of the method query.
MethodLoop(self, t, ms, i, locals) ==
  IF i > Len(ms) THEN Return(locals)
  ELSE LET node == ms[i].node
           text == NodeText(t, node)
           method_node == NodeParent(t, node)
           doc == ExtractDocComment(self, t, method_node)
       IN  IF ms[i].label \notin MethodLabels \/ text = <<>>
           THEN MethodLoop(self, t, ms, i + 1, locals)
           ELSE IF DecodeFails(text) \/ DecodeFails(NodeText(t, method_node))
           THEN Raise("UnicodeDecodeError")
           ELSE IF doc.raised THEN doc
           ELSE MethodLoop(self, t, ms, i + 1,
                  [locals EXCEPT
                     !.method_results = Append(@,
                        TreesitterMethodNode(Decode(text), doc.value,
                                             Decode(NodeText(t, method_node)), method_node,
                                             ParentClassName(t, method_node, locals)))])

\* parse(file_bytes) on the tree the parser built; the value of a call that
\* returns holds the lists it built, of which the caller gets
\* (class_results, method_results).
ParseFrom(self, t, locals) ==
  LET classes == ClassLoop(self, t, Matches(t, self.class_query, RootNode), 1, locals)
  IN  IF classes.raised THEN classes
      ELSE MethodLoop(self, t, Matches(t, self.method_query, RootNode), 1, classes.value)

TreesitterParse(self, file) ==
  ParseFrom(self, ParseTree(self.language_enum, file), ParseLocals)

\* What the caller of parse gets.
Returned(outcome) == <<outcome.value.class_results, outcome.value.method_results>>

----------------------------------------------------------------------------
(* Treesitter.__init__                                                     *)

\* The members of LanguageEnum that tree_sitter_language_pack has a grammar
\* for; get_parser and get_language raise LookupError for any other name.
PackLanguages == {"java", "python", "rust", "javascript"}

QueryNames == {"class_query", "method_query", "doc_query"}

\* An object no attribute of which has been set.
NoSelf ==
  [language_enum |-> "", parser |-> "", language_obj |-> "", query_config |-> "",
   class_query |-> {}, method_query |-> {}, doc_query |-> {}]

\* The steps of the constructor in their order; each takes the object so
\* far and gives the object after the step, or raises.
SetLanguageEnum(self, language) == Return([self EXCEPT !.language_enum = language])

GetParser(self, language) ==
  IF language \in PackLanguages THEN Return([self EXCEPT !.parser = language])
  ELSE Raise("LookupError")

GetLanguage(self, language) ==
  IF language \in PackLanguages THEN Return([self EXCEPT !.language_obj = language])
  ELSE Raise("LookupError")

\* LANGUAGE_QUERIES.get(language), and the check of what it gave.
LookupProfile(self, language) ==
  IF language \notin Registered THEN Raise("ValueError")
  ELSE Return([self EXCEPT !.query_config = language])

\* Query(self.language_obj, self.query_config[name]): QueryError when the
\* grammar rejects the pattern.
CompileQuery(self, name, rejected) ==
  IF name \in rejected THEN Raise("QueryError")
  ELSE Return([self EXCEPT ![name] = LANGUAGE_QUERIES[self.query_config][name]])

\* Runs step after the steps before it: an exception ends the constructor
\* and leaves the object as it was.
Then(before, step(_)) ==
  IF before.raised THEN before
  ELSE LET after == step(before.value.self)
       IN  IF after.raised THEN [raised |-> TRUE, error |-> after.error, value |-> before.value]
           ELSE Return([self |-> after.value])

\* Treesitter(language): value.self is the object, as far as it was built.
TreesitterInit(language, rejected) ==
  LET s1(o) == SetLanguageEnum(o, language)
      s2(o) == GetParser(o, language)
      s3(o) == GetLanguage(o, language)
      s4(o) == LookupProfile(o, language)
      s5(o) == CompileQuery(o, "class_query", rejected)
      s6(o) == CompileQuery(o, "method_query", rejected)
      s7(o) == CompileQuery(o, "doc_query", rejected)
  IN  Then(Then(Then(Then(Then(Then(Then(Return([self |-> NoSelf]), s1), s2), s3), s4), s5), s6), s7)

----------------------------------------------------------------------------
(* The actions.                                                            *)

NoCall == [file |-> <<>>, raised |-> FALSE, error |-> "none", value |-> NoLists]

\* No call is being followed statement by statement.
NoFrame ==
  [pc |-> "idle", file |-> <<>>, locals |-> NoLists, i |-> 0, k |-> 0,
   current_node |-> 0, doc_comment |-> <<>>, current |-> 0, seen |-> <<>>,
   longest |-> 0, error |-> ""]

Call(file, outcome) ==
  [file |-> file, raised |-> outcome.raised, error |-> outcome.error,
   value |-> IF outcome.raised THEN NoLists ELSE outcome.value]

\* The files of the calls that come between two calls on the same bytes: one
\* on which parse raises, one on which it returns.
OtherFiles ==
  { <<[role |-> "BADDOC", parent |-> 0], [role |-> "METHOD", parent |-> 0]>>,
    <<[role |-> "CLASS", parent |-> 0], [role |-> "METHOD", parent |-> 1]>> }

Init ==
  /\ grammar_rejects \in SUBSET QueryNames
  /\ ts_parser = NoSelf
  /\ ctor = "none"
  /\ calls = 0
  /\ first_call = NoCall
  /\ last_call = NoCall
  /\ between = {}
  /\ frame = NoFrame

\* ts_parser = Treesitter(language): the first instance, or a further one of
\* the same language.
Construct(language) ==
  /\ \/ ctor = "none"
     \/ ctor = "returned" /\ language = ts_parser.language_enum
  /\ LET made == TreesitterInit(language, grammar_rejects)
     IN  /\ ts_parser' = made.value.self
         /\ ctor' = IF made.raised THEN made.error ELSE "returned"
  /\ UNCHANGED <<grammar_rejects, calls, first_call, last_call, between, frame>>

\* The first call of ts_parser.parse, on any file.
ParseFirst(file) ==
  /\ ctor = "returned"
  /\ calls = 0
  /\ ts_parser.language_enum \in FileLanguages(file)
  /\ LET outcome == TreesitterParse(ts_parser, file)
     IN  /\ first_call' = Call(file, outcome)
         /\ last_call' = Call(file, outcome)
  /\ calls' = calls + 1
  /\ UNCHANGED <<grammar_rejects, ts_parser, ctor, between, frame>>

\* A later call, on the bytes of the first call or on another file.
ParseNext(file) ==
  /\ ctor = "returned"
  /\ calls > 0
  /\ calls < MaxCalls
  /\ last_call' = Call(file, TreesitterParse(ts_parser, file))
  /\ between' = IF file = first_call.file THEN between
                ELSE between \cup {IF last_call'.raised THEN "raised" ELSE "returned"}
  /\ calls' = calls + 1
  /\ UNCHANGED <<grammar_rejects, ts_parser, ctor, first_call, frame>>

\* The files of the runs that call parse more than once.
RepeatFiles == SiblingFiles \cup FlawFiles \cup {Sample}

\* One extractor and one call of parse, on any file.
Next ==
  \/ \E language \in LanguageEnum : Construct(language)
  \/ \E file \in Files : ParseFirst(file)

Spec == Init /\ [][Next]_vars

\* One or more extractors of a language and several calls of parse: on the
\* same bytes again, and on other files in between.
NextRepeat ==
  \/ \E language \in LanguageEnum : Construct(language)
  \/ \E file \in RepeatFiles : ParseFirst(file)
  \/ ParseNext(first_call.file)
  \/ \E file \in OtherFiles : ParseNext(file)

SpecRepeat == Init /\ [][NextRepeat]_vars

----------------------------------------------------------------------------
(* One call of parse followed statement by statement: the loop over the    *)
(* captures of the method query, and inside it the while loop of           *)
(* _extract_doc_comment, the scan of class_nodes and the while loop of     *)
(* _is_descendant_of, one iteration a step.  frame.pc is the loop the call *)
(* is in; frame.seen lists the nodes the running while loop has looked at. *)

\* The tree of the call, and the captures of its method query.
FrameTree == ParseTree(ts_parser.language_enum, frame.file)

FrameMatches == Matches(FrameTree, ts_parser.method_query, RootNode)

\* method_node of the iteration the method loop is in.
FrameMethodNode == NodeParent(FrameTree, FrameMatches[frame.i].node)

\* method_results.append(TreesitterMethodNode(...)) with the values of the
\* iteration, and on to the next capture.
FrameAppend(class_name) ==
  LET text == NodeText(FrameTree, FrameMatches[frame.i].node)
      made == TreesitterMethodNode(Decode(text), frame.doc_comment,
                                   Decode(NodeText(FrameTree, FrameMethodNode)),
                                   FrameMethodNode, class_name)
  IN  [frame EXCEPT !.pc = "methods", !.i = @ + 1,
                    !.locals.method_results = Append(@, made)]

\* The call of parse: the tree is built and the class loop runs.
StartParse(file) ==
  /\ ctor = "returned"
  /\ calls = 0
  /\ frame.pc = "idle"
  /\ ts_parser.language_enum \in FileLanguages(file)
  /\ LET t == ParseTree(ts_parser.language_enum, file)
         classes == ClassLoop(ts_parser, t, Matches(t, ts_parser.class_query, RootNode),
                              1, ParseLocals)
     IN  frame' = IF classes.raised
                  THEN [NoFrame EXCEPT !.pc = "raise", !.file = file, !.error = classes.error]
                  ELSE [NoFrame EXCEPT !.pc = "methods", !.file = file,
                                       !.locals = classes.value, !.i = 1]
  /\ UNCHANGED <<grammar_rejects, ts_parser, ctor, calls, first_call, last_call, between>>

\* The frame after the head of the method loop: the next capture, up to the
\* call of _extract_doc_comment, or the end of the loop.
MethodNext ==
  IF frame.i > Len(FrameMatches) THEN [frame EXCEPT !.pc = "return"]
  ELSE LET text == NodeText(FrameTree, FrameMatches[frame.i].node)
       IN  IF FrameMatches[frame.i].label \notin MethodLabels \/ text = <<>>
           THEN [frame EXCEPT !.i = @ + 1]
           ELSE IF DecodeFails(text) \/ DecodeFails(NodeText(FrameTree, FrameMethodNode))
           THEN [frame EXCEPT !.pc = "raise", !.error = "UnicodeDecodeError"]
           ELSE [frame EXCEPT !.pc = "doc", !.doc_comment = <<>>, !.seen = <<>>,
                              !.current_node = PrevSibling(FrameTree, FrameMethodNode)]

MethodStep ==
  /\ frame.pc = "methods"
  /\ frame' = MethodNext
  /\ UNCHANGED <<grammar_rejects, ts_parser, ctor, calls, first_call, last_call, between>>

\* The frame after one test of `while current_node` and, when it is not
\* None, one run of the body; leaving the loop returns doc_comment.strip()
\* and starts the scan of class_nodes.
DocNext ==
  LET t == FrameTree
      doc_matches == Matches(t, ts_parser.doc_query, frame.current_node)
      got == DocCaptures(t, doc_matches, 1, frame.doc_comment)
      seen == Append(frame.seen, frame.current_node)
      longest == IF Len(seen) > frame.longest THEN Len(seen) ELSE frame.longest
  IN  IF frame.current_node = 0
      THEN [frame EXCEPT !.pc = "scan", !.k = 1, !.doc_comment = Strip(@)]
      ELSE IF got.raised
      THEN [frame EXCEPT !.pc = "raise", !.error = got.error]
      ELSE IF WalkContinues(t, frame.current_node, Len(doc_matches) > 0)
      THEN [frame EXCEPT !.doc_comment = got.value, !.seen = seen, !.longest = longest,
                         !.current_node = PrevSibling(t, frame.current_node)]
      ELSE [frame EXCEPT !.pc = "scan", !.k = 1, !.doc_comment = Strip(got.value),
                         !.seen = seen, !.longest = longest]

DocStep ==
  /\ frame.pc = "doc"
  /\ frame' = DocNext
  /\ UNCHANGED <<grammar_rejects, ts_parser, ctor, calls, first_call, last_call, between>>

\* The frame after the head of `for class_node in class_nodes`: the next
\* class node and the call of _is_descendant_of, or the end of the loop with
\* parent_class_name None.
ScanNext ==
  IF frame.k > Len(frame.locals.class_nodes) THEN FrameAppend(NoneVal)
  ELSE [frame EXCEPT !.pc = "ancestors", !.seen = <<>>,
                     !.current = NodeParent(FrameTree, FrameMethodNode)]

ScanStep ==
  /\ frame.pc = "scan"
  /\ frame' = ScanNext
  /\ UNCHANGED <<grammar_rejects, ts_parser, ctor, calls, first_call, last_call, between>>

\* The frame after one test of `while current` and, when it is not None, one
\* run of the body: True breaks the scan with the name of the class node,
\* False goes on to the next class node.
AncestorNext ==
  LET class_node == frame.locals.class_nodes[frame.k]
  IN  IF frame.current = 0
      THEN [frame EXCEPT !.pc = "scan", !.k = @ + 1]
      ELSE IF frame.current = class_node
      THEN [FrameAppend(Some(frame.locals.class_name_by_node[class_node]))
              EXCEPT !.seen = Append(frame.seen, frame.current)]
      ELSE [frame EXCEPT !.seen = Append(@, frame.current),
                         !.current = NodeParent(FrameTree, frame.current)]

AncestorStep ==
  /\ frame.pc = "ancestors"
  /\ frame' = AncestorNext
  /\ UNCHANGED <<grammar_rejects, ts_parser, ctor, calls, first_call, last_call, between>>

\* The call ends: it returns its lists or the exception leaves it.
ParseEnds ==
  /\ frame.pc \in {"return", "raise"}
  /\ LET outcome == IF frame.pc = "raise" THEN Raise(frame.error) ELSE Return(frame.locals)
     IN  /\ first_call' = Call(frame.file, outcome)
         /\ last_call' = Call(frame.file, outcome)
  /\ calls' = calls + 1
  /\ frame' = [frame EXCEPT !.pc = "done"]
  /\ UNCHANGED <<grammar_rejects, ts_parser, ctor, between>>

\* The files of the runs that follow a call statement by statement: the
\* sibling runs, the damaged files and the sample, for the sibling walk, and
\* the nestings of declarations, for the parent walk.
StepFiles == RepeatFiles \cup UNION {Outlines(k, {"CLASS", "METHOD"}) : k \in 0..MaxNodes}

\* The statements of a running call.
Running ==
  MethodStep \/ DocStep \/ ScanStep \/ AncestorStep \/ ParseEnds

NextSteps ==
  \/ \E language \in LanguageEnum : Construct(language)
  \/ \E file \in StepFiles : StartParse(file)
  \/ MethodStep
  \/ DocStep
  \/ ScanStep
  \/ AncestorStep
  \/ ParseEnds

\* The positions of a call that has a statement to run.
RunningAt == {"methods", "doc", "scan", "ancestors", "return", "raise"}

\* The interpreter goes on running a call that has a statement to run: weak
\* fairness of Running, which is enabled at the positions of RunningAt.
SpecSteps ==
  /\ Init
  /\ [][NextSteps]_vars
  /\ ([]<>(frame.pc \notin RunningAt) \/ []<><<Running>>_vars)

----------------------------------------------------------------------------
(* What the properties below speak of.                                     *)

\* parse has been called, and its latest call returned.
Called == calls > 0

ReturnedOk == calls > 0 /\ ~last_call.raised

\* The tree, and the lists, of the latest call.
Tree == ParseTree(ts_parser.language_enum, last_call.file)

Classes == last_call.value.class_results

Methods == last_call.value.method_results

\* The node kinds that are comments.
CommentTypes == {"comment", "block_comment", "line_comment"}

\* The node kinds the class pattern and the method pattern are rooted at.
ClassKinds == {p.root : p \in ts_parser.class_query}

MethodKinds == {p.root : p \in ts_parser.method_query}

\* The name nodes of the declarations of the method pattern.
MethodNameNodes ==
  {n \in Nodes(Tree) : \E p \in ts_parser.method_query :
     /\ Tree.kind[n] = p.capture
     /\ Tree.parent[n] # 0
     /\ Tree.kind[Tree.parent[n]] = p.root}

\* The siblings before node n.
EarlierSiblings(n) == {m \in Nodes(Tree) : m < n /\ Tree.parent[m] = Tree.parent[n]}

\* A comment node the comment pattern of the profile captures.
IsComment(n) ==
  /\ Tree.kind[n] \in CommentTypes
  /\ \E p \in ts_parser.doc_query : p.root = "" /\ p.capture = Tree.kind[n]

\* A statement that carries documentation: the root of the comment pattern,
\* with the captured text as its child.
IsDocStatement(n) ==
  \E p \in ts_parser.doc_query : \E c \in Nodes(Tree) :
    p.root # "" /\ Tree.kind[n] = p.root /\ Tree.parent[c] = n /\ Tree.kind[c] = p.capture

\* The text of a str up to its first line break.
RECURSIVE FirstLine(_)
FirstLine(s) ==
  IF s = <<>> \/ Head(s) = "\n" THEN <<>> ELSE <<Head(s)>> \o FirstLine(Tail(s))

----------------------------------------------------------------------------
(* C1.  Referential integrity: when parse returns, every method record     *)
(* whose class_name is not None names a class, by the name of a class      *)
(* record of the same call.                                                *)
C1_ReferentialIntegrity ==
  ReturnedOk =>
    \A i \in DOMAIN Methods :
      Methods[i].class_name # NoneVal =>
        \E j \in DOMAIN Classes : Methods[i].class_name = Some(Classes[j].name)

\* A call returned a method that lies in a class and one that lies in none.
C1_Witness ==
  /\ ReturnedOk
  /\ \E i \in DOMAIN Methods : Methods[i].class_name # NoneVal
  /\ \E i \in DOMAIN Methods : Methods[i].class_name = NoneVal

(* C2.  Doc-comment contiguity: a declaration whose two nearest earlier    *)
(* siblings are the comment nodes c1, c2, with no sibling or a sibling     *)
(* that is not a comment before them, has the documentation                *)
(* strip(text(c1) + "\n" + text(c2)).                                      *)
C2_TwoComments ==
  ReturnedOk =>
    \A i \in DOMAIN Methods :
      LET d == Methods[i].node
          c2 == PrevSibling(Tree, d)
          c1 == IF c2 = 0 THEN 0 ELSE PrevSibling(Tree, c2)
          s0 == IF c1 = 0 THEN 0 ELSE PrevSibling(Tree, c1)
      IN  ( /\ c2 # 0 /\ c1 # 0
            /\ IsComment(c1) /\ IsComment(c2)
            /\ (s0 = 0 \/ Tree.kind[s0] \notin CommentTypes) )
          => Methods[i].doc_comment =
               Strip(Decode(NodeText(Tree, c1)) \o <<"\n">> \o Decode(NodeText(Tree, c2)))

(* C3.  Doc-comment absence: a declaration none of whose earlier siblings  *)
(* is a comment node or a statement that carries documentation has the     *)
(* empty string as its documentation, and resolving it does not raise.     *)
C3_NoComment ==
  Called =>
    \A n \in MethodNameNodes :
      LET d == Tree.parent[n]
          doc == ExtractDocComment(ts_parser, Tree, d)
      IN  (\A s \in EarlierSiblings(d) :
             Tree.kind[s] \notin CommentTypes /\ ~IsDocStatement(s))
          => ~doc.raised /\ doc.value = <<>>

(* C4.  Member-count consistency.                                          *)

\* The declarations anywhere below class_node whose name token is not empty.
NamedBelow(class_node) ==
  {n \in MethodNameNodes : InSubtree(Tree, n, class_node) /\ NodeText(Tree, n) # <<>>}

\* Those of them that are declared in the body of the type at class_node:
\* the ones whose nearest enclosing declaration is the type.
BodyMembers(class_node) ==
  {n \in NamedBelow(class_node) :
     \A a \in Nodes(Tree) :
       ( /\ Tree.kind[a] \in ClassKinds \cup MethodKinds
         /\ a # Tree.parent[n]
         /\ InSubtree(Tree, n, a) )
       => InSubtree(Tree, class_node, a)}

\* C4 as claimed: the member list of a type has one entry per declaration in
\* its body.
C4_BodyMemberCount ==
  ReturnedOk =>
    \A j \in DOMAIN Classes :
      Len(Classes[j].method_declarations) = Cardinality(BodyMembers(Classes[j].node))

\* C4 as amended: the member list of a type has one entry per declaration of
\* the method pattern with a non-empty name anywhere in the subtree of the
\* type, the declarations nested in its members and in its nested types
\* included.
C4_SubtreeMemberCount ==
  ReturnedOk =>
    \A j \in DOMAIN Classes :
      Len(Classes[j].method_declarations) = Cardinality(NamedBelow(Classes[j].node))

\* A call returned a type with a member and a declaration nested in it.
C4_Witness ==
  /\ ReturnedOk
  /\ \E j \in DOMAIN Classes :
       /\ Cardinality(BodyMembers(Classes[j].node)) >= 1
       /\ Len(Classes[j].method_declarations) > Cardinality(BodyMembers(Classes[j].node))

(* C5.  Every entry of the member list of a type is the first line of the  *)
(* source text of the member it stands for.                                *)
C5_SignatureOnly ==
  ReturnedOk =>
    \A j \in DOMAIN Classes :
      LET names == SortedSeq(NamedBelow(Classes[j].node))
          listed == Classes[j].method_declarations
      IN  \A k \in DOMAIN listed :
            k <= Len(names) =>
              listed[k] = FirstLine(Decode(NodeText(Tree, Tree.parent[names[k]])))

(* C6.  The sample of main(): one type MyClass with two members; __init__   *)
(* and greet lie in MyClass and are documented "The constructor            *)
(* docstring." and "A method docstring."; standalone_function lies in no   *)
(* type and is documented "A standalone function docstring.".              *)
C6_Sample ==
  (ReturnedOk /\ last_call.file = Sample) =>
    /\ Len(Classes) = 1
    /\ Classes[1].name = <<"M", "y", "C", "l", "a", "s", "s">>
    /\ Len(Classes[1].method_declarations) = 2
    /\ Len(Methods) = 3
    /\ Methods[1].name = <<"_", "_", "i", "n", "i", "t", "_", "_">>
    /\ Methods[1].class_name = Some(<<"M", "y", "C", "l", "a", "s", "s">>)
    /\ Methods[1].doc_comment = 
         <<"T", "h", "e", " ", "c", "o", "n", "s", "t", "r", "u", "c", "t", "o", "r", " ", "d", "o", "c", "s", "t", "r", "i", "n", "g", ".">>
    /\ Methods[2].name = <<"g", "r", "e", "e", "t">>
    /\ Methods[2].class_name = Some(<<"M", "y", "C", "l", "a", "s", "s">>)
    /\ Methods[2].doc_comment = 
         <<"A", " ", "m", "e", "t", "h", "o", "d", " ", "d", "o", "c", "s", "t", "r", "i", "n", "g", ".">>
    /\ Methods[3].name = 
         <<"s", "t", "a", "n", "d", "a", "l", "o", "n", "e", "_", "f", "u", "n", "c", "t", "i", "o", "n">>
    /\ Methods[3].class_name = NoneVal
    /\ Methods[3].doc_comment = 
         <<"A", " ", "s", "t", "a", "n", "d", "a", "l", "o", "n", "e", " ", "f", "u", "n", "c", "t", "i", "o", "n", " ", "d", "o", "c", "s", "t", "r", "i", "n", "g", ".">>

(* C7.  An extractor for a language with no profile fails with ValueError  *)
(* ("Unsupported language") before any work: no parser and no language     *)
(* object is acquired and no query is compiled.                            *)
C7_UnsupportedLanguage ==
  (ctor # "none" /\ ts_parser.language_enum \notin Registered) =>
    /\ ctor = "ValueError"
    /\ ts_parser.parser = ""
    /\ ts_parser.language_obj = ""
    /\ ts_parser.class_query = {} /\ ts_parser.method_query = {} /\ ts_parser.doc_query = {}

C9_QueryIsolation ==
  ( /\ ctor # "none"
    /\ ts_parser.language_enum \in Registered
    /\ grammar_rejects = {"doc_query"} )
  => ctor = "returned" /\ ts_parser.class_query # {}

(* C10.  Decode failure: text that cannot be decoded is skipped and the    *)
(* call goes on; the decode error does not come out of parse.              *)
C10_DecodeSkipped ==
  Called => ~(last_call.raised /\ last_call.error = "UnicodeDecodeError")

(* C11.  Enclosing-type resolution: the class_name of a method record is   *)
(* the name of the first class record, in the order of the class list,     *)
(* whose node is a proper ancestor of the method node, and it is None      *)
(* exactly when no class record has such a node.                           *)

\* The nodes on the parent chain of n, n itself left out.
ProperAncestors(n) == {a \in Nodes(Tree) : a # n /\ InSubtree(Tree, n, a)}

\* The class records whose node lies on the parent chain of method record i.
KnownAbove(i) ==
  {j \in DOMAIN Classes : Classes[j].node \in ProperAncestors(Methods[i].node)}

C11_FirstEnclosingType ==
  ReturnedOk =>
    \A i \in DOMAIN Methods :
      IF KnownAbove(i) = {}
      THEN Methods[i].class_name = NoneVal
      ELSE \E j \in KnownAbove(i) :
             /\ \A k \in KnownAbove(i) : j <= k
             /\ Methods[i].class_name = Some(Classes[j].name)

\* A call returned a method that lies in two classes of different names.
C11_Witness ==
  /\ ReturnedOk
  /\ \E i \in DOMAIN Methods : \E j, k \in KnownAbove(i) :
       j < k /\ Classes[j].name # Classes[k].name

(* C12.  Stop rule of the sibling walk: the nearest earlier sibling of a   *)
(* declaration that is neither a comment nor of a transparent kind ends    *)
(* the walk, so the documentation is made of the siblings after it alone:  *)
(* no text comes from that sibling, from the comments inside it, or from   *)
(* a sibling before it.                                                    *)

\* The earlier siblings of declaration d on which the walk is to stop.
Stoppers(d) == {s \in EarlierSiblings(d) : Tree.kind[s] \notin TransparentTypes}

\* What the walk collects from current_node back to the sibling after stop.
RECURSIVE ScanDownTo(_, _, _)
ScanDownTo(current_node, stop, doc_comment) ==
  IF current_node = 0 \/ current_node = stop THEN doc_comment
  ELSE ScanDownTo(PrevSibling(Tree, current_node), stop,
         DocCaptures(Tree, Matches(Tree, ts_parser.doc_query, current_node), 1,
                     doc_comment).value)

C12_StopRule ==
  ReturnedOk =>
    \A i \in DOMAIN Methods :
      LET d == Methods[i].node
          stop == CHOOSE s \in Stoppers(d) : \A r \in Stoppers(d) : r <= s
      IN  Stoppers(d) # {} =>
            Methods[i].doc_comment = Strip(ScanDownTo(PrevSibling(Tree, d), stop, <<>>))

(* C13.  Fragment order: the documentation of a declaration is made of the *)
(* comment texts the walk collected, one per line, in source order: across *)
(* the siblings walked and among the captures of one sibling.              *)

\* The siblings the walk looks at, from current_node backward.
RECURSIVE WalkedFrom(_)
WalkedFrom(current_node) ==
  IF current_node = 0 THEN {}
  ELSE {current_node} \cup
       (IF WalkContinues(Tree, current_node,
                         Len(Matches(Tree, ts_parser.doc_query, current_node)) > 0)
        THEN WalkedFrom(PrevSibling(Tree, current_node))
        ELSE {})

\* The comment nodes whose text the walk before declaration d collects.
Fragments(d) ==
  {n \in Nodes(Tree) :
     /\ NodeText(Tree, n) # <<>>
     /\ \E s \in WalkedFrom(PrevSibling(Tree, d)) :
          LET ms == Matches(Tree, ts_parser.doc_query, s)
          IN  \E k \in DOMAIN ms : ms[k].node = n /\ ms[k].label = "comment"}

\* The texts of the nodes ns, each followed by a line break.
RECURSIVE JoinLines(_)
JoinLines(ns) ==
  IF ns = <<>> THEN <<>>
  ELSE Decode(NodeText(Tree, Head(ns))) \o <<"\n">> \o JoinLines(Tail(ns))

C13_SourceOrder ==
  ReturnedOk =>
    \A i \in DOMAIN Methods :
      Methods[i].doc_comment = Strip(JoinLines(SortedSeq(Fragments(Methods[i].node))))

(* C14.  Node identity.                                                    *)

\* The name nodes of the declarations of the class pattern.
ClassNameNodes ==
  {n \in Nodes(Tree) : \E p \in ts_parser.class_query :
     /\ Tree.kind[n] = p.capture
     /\ Tree.parent[n] # 0
     /\ Tree.kind[Tree.parent[n]] = p.root}

\* The declaration nodes whose name node is among names and is not empty.
NamedDeclarations(names) == {Tree.parent[n] : n \in {m \in names : NodeText(Tree, m) # <<>>}}

\* The name of declaration node d, its name node being among names.
NameOf(d, names) ==
  Decode(NodeText(Tree, CHOOSE n \in names : Tree.parent[n] = d))

\* C14 as claimed: there is a method record for every declaration node the
\* method pattern matches, and a class record for every node the class
\* pattern matches.
C14_EveryMatchedNode ==
  ReturnedOk =>
    /\ {Methods[i].node : i \in DOMAIN Methods} = {Tree.parent[n] : n \in MethodNameNodes}
    /\ {Classes[j].node : j \in DOMAIN Classes} = {Tree.parent[n] : n \in ClassNameNodes}

\* C14 as amended: the method records stand one to one for the declaration
\* nodes of the method pattern whose name is not empty, and the class
\* records for those of the class pattern; no two records share a node,
\* whatever their names, and each record holds the name, the source text,
\* the documentation and the enclosing type of its own node.
C14_OneRecordPerNamedNode ==
  ReturnedOk =>
    /\ {Methods[i].node : i \in DOMAIN Methods} = NamedDeclarations(MethodNameNodes)
    /\ {Classes[j].node : j \in DOMAIN Classes} = NamedDeclarations(ClassNameNodes)
    /\ \A i, k \in DOMAIN Methods : i # k => Methods[i].node # Methods[k].node
    /\ \A j, k \in DOMAIN Classes : j # k => Classes[j].node # Classes[k].node
    /\ \A i \in DOMAIN Methods :
         LET d == Methods[i].node
         IN  /\ Methods[i].name = NameOf(d, MethodNameNodes)
             /\ Methods[i].method_source_code = Decode(NodeText(Tree, d))
             /\ Methods[i].doc_comment = ExtractDocComment(ts_parser, Tree, d).value
             /\ Methods[i].class_name =
                  IF KnownAbove(i) = {} THEN NoneVal
                  ELSE Some(Classes[CHOOSE j \in KnownAbove(i) :
                                      \A k \in KnownAbove(i) : j <= k].name)
    /\ \A j \in DOMAIN Classes :
         LET d == Classes[j].node
         IN  /\ Classes[j].name = NameOf(d, ClassNameNodes)
             /\ Classes[j].source_code = Decode(NodeText(Tree, d))

\* A call returned two methods of one name, at two nodes, with different
\* enclosing types.
C14_Witness ==
  /\ ReturnedOk
  /\ \E i, k \in DOMAIN Methods :
       /\ i # k
       /\ Methods[i].name = Methods[k].name
       /\ Methods[i].node # Methods[k].node
       /\ Methods[i].class_name # Methods[k].class_name

(* C16.  Nearest enclosing type: the class_name of a method record that    *)
(* lies in several nested classes is the name of the innermost of them,    *)
(* and the text of the method is an entry of that class's member list.     *)
C16_InnermostType ==
  ReturnedOk =>
    \A i \in DOMAIN Methods :
      KnownAbove(i) # {} =>
        \E j \in KnownAbove(i) :
          /\ \A k \in KnownAbove(i) : InSubtree(Tree, Classes[j].node, Classes[k].node)
          /\ Methods[i].class_name = Some(Classes[j].name)
          /\ \E m \in DOMAIN Classes[j].method_declarations :
               Classes[j].method_declarations[m] = Methods[i].method_source_code

(* C15.  Termination: a call of parse ends, by returning or by raising;    *)
(* the sibling walk of _extract_doc_comment ends at the latest where there *)
(* is no previous sibling and the parent walk of _is_descendant_of at the  *)
(* latest above the root, and no walk looks at a node twice.               *)

\* The running while loop has looked at no node twice.
NoRevisit ==
  \A a, b \in DOMAIN frame.seen : a # b => frame.seen[a] # frame.seen[b]

\* A call that has not ended has a statement to run, and running it changes
\* the frame.
Proceeds ==
  /\ frame.pc \in {"idle", "done"} \cup RunningAt
  /\ frame.pc = "methods" => MethodNext # frame
  /\ frame.pc = "doc" => DocNext # frame
  /\ frame.pc = "scan" => ScanNext # frame
  /\ frame.pc = "ancestors" => AncestorNext # frame

C15_Terminates ==
  /\ [](NoRevisit /\ Proceeds)
  /\ (frame.pc # "idle") ~> (frame.pc = "done")

\* A call returned after a sibling walk that looked at two or more siblings
\* and a parent walk that went up to the root without meeting the class
\* node.
C15_Witness ==
  /\ frame.pc = "done"
  /\ ~last_call.raised
  /\ frame.longest >= 2
  /\ \E i \in DOMAIN Methods : Methods[i].class_name = NoneVal
  /\ Len(Classes) > 0

=============================================================================
